---- MODULE Spec2Model ----
(***************************************************************************)
(* Bulk ad-refresh engine of content_top: the persisted Job / JobItem      *)
(* records (backend/database.py), the Job Orchestrator that drives a pass, *)
(* and ThemaAdsProcessor.process_all / process_customer                    *)
(* (thema_ads_optimized/main_optimized.py) with the Label Registry calls   *)
(* of operations/labels.py.  Each await of process_customer is one step of *)
(* the account's task; the remote API answers nondeterministically.        *)
(***************************************************************************)
EXTENDS Integers, Sequences, FiniteSets, TLC

\* ---------------------------------------------------------------- bounds
NumCustomers == 3      \* advertiser accounts that can occur in an input
MaxAdGroups == 2       \* ad groups per account that can occur in an input
MaxTargets == 3        \* targets of one job
MaxAdless == 1         \* ad groups of an input without a usable existing ad
MaxAttempts == 4       \* item attempts of one job, over process_job and resumes
MaxPairs == 2          \* (entity, label) pairs of one label batch call
MaxHeadlines == 4      \* headlines of an existing ad
MaxDescriptions == 2   \* descriptions of an existing ad
MaxUrls == 2           \* final urls of an existing ad
NumUrls == 3           \* urls in the work queue
NumRequests == 2       \* process_urls requests that can be under way
MaxBatch == 2          \* largest batch_size of a request

\* config.performance.max_concurrent_customers, read when the semaphore is built
max_concurrent_customers == 2

Customers == 1..NumCustomers
AdGroupIds == 1..MaxAdGroups

\* ThemaAdsProcessor.label_names
label_names == {"SINGLES_DAY", "THEMA_AD", "THEMA_ORIGINAL", "BF_2025"}

\* the label the dispatcher puts on a processed ad group
DoneLabel == "BF_2025"

\* what the remote holds for an ad group: no RSA, an RSA without final_urls,
\* an RSA with at least one final url
AdKinds == {"none", "nourl", "ok"}

\* AdGroupInput (campaign_name and campaign_id play no part in the pass)
AdGroupInput(c, g) == [customer_id |-> c, ad_group_id |-> g]

\* ProcessingResult; new_ad_resource 0 and error "" stand for None, a new ad
\* is named by the ad group it was created in
ProcessingResult(c, g, ok, ad, err) ==
    [customer_id |-> c, ad_group_id |-> g, success |-> ok,
     new_ad_resource |-> ad, error |-> err]

VARIABLES
    targets,           \* the input source: ordered list of AdGroupInput
    dry_run,           \* config.dry_run
    existing_ads,      \* remote: <<customer, ad group>> -> AdKinds
    remote_labels,     \* remote: customer -> label names that exist
    ad_group_labels,   \* remote: <<customer, ad group>> carrying DoneLabel
    ads_created,       \* remote: <<customer, ad group>> -> themed ads created
    job,               \* the thema_ads_jobs row ("none" before create_job)
    items,             \* the thema_ads_job_items rows of the job
    attempts,          \* item attempts the job's passes have started
    pause_requested,   \* pause_job was called during the current pass
    pass_inputs,       \* inputs handed to process_all by the current pass
    pc,                \* customer -> position of its process_with_limit task
    semaphore,         \* value of the asyncio.Semaphore of process_all
    cached_labels,     \* customer -> labels map after ensure_labels_exist
    ad_operations,     \* customer -> ad groups of the built publish operations
    new_ad_resources,  \* customer -> new ads returned by create_rsa_batch
    task_result,       \* customer -> ProcessingResults the task returned
    remote_calls,      \* customer -> remote calls of its task, in order
    fault,             \* customer -> worst end of its remote calls so far
    pass_active,       \* a pass of process_job is under way
    recorded,          \* results of the pass already written to the store
    call,              \* a call of a Label Registry function: name and arguments
    wrapper,           \* async_retry around the call: attempts made and how it ended
    mutate_log,        \* the remote mutations the call issued, with their answers
    remote_store,      \* remote: operation -> times the remote applied it
    create_error,      \* the error create_job failed with, "" when none
    cached_existing_ad, \* cached_data.existing_ads.get(ad_group_resource): <<>> or <<ExistingAd>>
    builder_labels,    \* the labels map handed to _build_operations_for_ad_group
    build,             \* what _build_operations_for_ad_group returned or raised
    kopteksten,        \* work queue: url -> kopteksten flag of its row
    tracking,          \* local tracking table: url -> status ("none": no row)
    content_rows,      \* output table: url -> number of content rows
    request            \* process_urls request -> its position and locals

remoteVars == <<existing_ads, remote_labels, ad_group_labels, ads_created>>
storeVars == <<job, items, attempts, pause_requested>>
taskVars == <<pc, semaphore, cached_labels, ad_operations, new_ad_resources,
              task_result, remote_calls, fault>>
passVars == <<pass_inputs, pass_active, recorded>>
configVars == <<targets, dry_run>>
registryVars == <<call, wrapper, mutate_log, remote_store>>
builderVars == <<cached_existing_ad, builder_labels, build>>
urlVars == <<kopteksten, tracking, content_rows, request>>
vars == <<configVars, remoteVars, storeVars, taskVars, passVars, registryVars,
          builderVars, urlVars, create_error>>

\* ---------------------------------------------------------------- helpers
RECURSIVE SeqSum(_)
SeqSum(s) == IF s = <<>> THEN 0 ELSE Head(s) + SeqSum(Tail(s))

RECURSIVE Flatten(_)
Flatten(ss) == IF ss = <<>> THEN <<>> ELSE Head(ss) \o Flatten(Tail(ss))

Range(s) == {s[i] : i \in DOMAIN s}

\* the interleaved order in which an input file lists the ad groups
RECURSIVE MasterFrom(_, _)
MasterFrom(g, c) ==
    IF g > MaxAdGroups THEN <<>>
    ELSE IF c > NumCustomers THEN MasterFrom(g + 1, 1)
    ELSE <<AdGroupInput(c, g)>> \o MasterFrom(g, c + 1)

MasterList == MasterFrom(1, 1)

\* the input lists considered: customer c contributes its first n[c] ad
\* groups, the customers with more ad groups come first
TargetCounts ==
    {n \in [Customers -> 0..MaxAdGroups] :
        /\ SeqSum([c \in 1..NumCustomers |-> n[c]]) <= MaxTargets
        /\ \A c \in Customers : c > 1 => n[c] <= n[c - 1]}

TargetLists ==
    {SelectSeq(MasterList, LAMBDA t : t.ad_group_id <= n[t.customer_id]) :
        n \in TargetCounts}

Keys == Customers \X AdGroupIds

\* ---------------------------------------------------------------- process_all
by_customer_ungrouped(inputs, c) == inputs

\* by_customer[cid]: the inputs of one customer, in input order
by_customer(inputs, c) == SelectSeq(inputs, LAMBDA t : t.customer_id = c)

CustomerOrder_per_input(inputs, seen) ==
    [i \in 1..Len(inputs) |-> inputs[i].customer_id]

\* keys of by_customer in insertion order (first appearance in the inputs)
RECURSIVE CustomerOrder(_, _)
CustomerOrder(inputs, seen) ==
    IF inputs = <<>> THEN <<>>
    ELSE IF Head(inputs).customer_id \in seen
         THEN CustomerOrder(Tail(inputs), seen)
         ELSE <<Head(inputs).customer_id>> \o
              CustomerOrder(Tail(inputs), seen \cup {Head(inputs).customer_id})

CanEnter_always(sem) == TRUE

\* "async with semaphore" lets a task in without waiting
CanEnter(sem) == sem > 0

\* gather starts the tasks in order: each enters process_customer and runs to
\* its first await unless the semaphore makes it wait
RECURSIVE Admitted(_, _)
Admitted(order, sem) ==
    IF order = <<>> THEN {}
    ELSE IF CanEnter(sem) THEN {Head(order)} \cup Admitted(Tail(order), sem - 1)
    ELSE Admitted(Tail(order), sem)

\* accounts inside process_customer: past the semaphore, not yet returned
InFlight == {c \in Customers : pc[c] \notin {"idle", "waiting", "done"}}

\* asyncio.gather has every task's result
TasksDone == \A c \in Customers : pc[c] \in {"idle", "done"}

\* all_results of process_all: the tasks' results in gather order
AllResults ==
    Flatten([i \in 1..Len(CustomerOrder(pass_inputs, {})) |->
                task_result[CustomerOrder(pass_inputs, {})[i]]])

\* ---------------------------------------------------------------- Label Registry
\* @async_retry(max_attempts=3, delay=1.0) on the three registry functions
max_attempts == 3

\* ThemaAdsProcessor.label_names, the list handed to ensure_labels_exist
label_names_list == <<"SINGLES_DAY", "THEMA_AD", "THEMA_ORIGINAL", "BF_2025">>

LabelBatchFunctions == {"label_ads_batch", "label_ad_groups_batch"}

\* the calls considered: ensure_labels_exist with any known map, a label batch
\* with 0..MaxPairs pairs (a pair is named by its position in the list)
Calls ==
    [fn : {"ensure_labels_exist"}, existing_labels : SUBSET label_names, pairs : {0}]
    \cup [fn : LabelBatchFunctions, existing_labels : {{}}, pairs : 0..MaxPairs]

NoCall == [fn |-> "none", existing_labels |-> {}, pairs |-> 0]

\* everything the mutations of a call can create: label names, assignments
RemoteOperations(cl) ==
    IF cl.fn = "ensure_labels_exist" THEN label_names ELSE 1..cl.pairs

Needed_all(names, existing) == names

\* needed = [name for name in label_names if name not in existing_labels]
Needed(names, existing) == SelectSeq(names, LAMBDA n : n \notin existing)

\* the operations list one invocation of the function builds
Operations(cl) ==
    IF cl.fn = "ensure_labels_exist"
    THEN Needed(label_names_list, cl.existing_labels)
    ELSE [i \in 1..cl.pairs |-> i]

NoError == [kind |-> "none", retryable |-> FALSE, applied |-> 0]

\* the remote's answer to a mutation of n operations none of which exists yet:
\* the results of all n; a GoogleAdsException after it applied fewer than n; or
\* an error of another class (transport, timeout) after it applied any number,
\* n when only the response was lost.  retryable: the error is transient
Answers(n) ==
    {[kind |-> "ok", retryable |-> FALSE, applied |-> n]}
    \cup [kind : {"GoogleAdsException"}, retryable : BOOLEAN, applied : 0..(n - 1)]
    \cup [kind : {"other"}, retryable : BOOLEAN, applied : 0..n]

\* the remote's answer to a mutation that creates something it already holds:
\* rejected as a whole, or the call fails before the remote decides
Rejections ==
    {[kind |-> "GoogleAdsException", retryable |-> FALSE, applied |-> 0]}
    \cup [kind : {"other"}, retryable : BOOLEAN, applied : {0}]

RemoteAnswers(sent, store) ==
    IF \E i \in DOMAIN sent : store[sent[i]] > 0 THEN Rejections
    ELSE Answers(Len(sent))

\* the remote after it applied the first a.applied operations of sent
Applied(store, sent, a) ==
    [op \in DOMAIN store |->
        IF \E i \in 1..a.applied : sent[i] = op THEN store[op] + 1 ELSE store[op]]

Returned(v) == [raised |-> FALSE, value |-> v, error |-> NoError]
Raised(v, a) == [raised |-> TRUE, value |-> v, error |-> a]

\* _ensure after mutate_labels answered a: the merged map, the map it was given
\* when GoogleAdsException is caught, any other error leaves the function
ensure(existing, needed, a) ==
    IF a.kind = "ok" THEN Returned(existing \cup Range(needed))
    ELSE IF a.kind = "GoogleAdsException" THEN Returned(existing)
    ELSE Raised(existing, a)

\* _label after the mutate answered a: len(response.results), 0 when
\* GoogleAdsException is caught, any other error leaves the function
label(ops, a) ==
    IF a.kind = "ok" THEN Returned(a.applied)
    ELSE IF a.kind = "GoogleAdsException" THEN Returned(0)
    ELSE Raised(0, a)

\* what the function returns without a remote call: nothing needed, empty list
WithoutCall(cl) ==
    IF cl.fn = "ensure_labels_exist" THEN Returned(cl.existing_labels) ELSE Returned(0)

ShouldRetry_any(err, n) == n < max_attempts

\* async_retry goes round again: a retryable error and attempts left
ShouldRetry(err, n) == err.retryable /\ n < max_attempts

\* async_retry after one more invocation of the function ended as res
async_retry(w, res) ==
    IF ~res.raised
    THEN [attempt |-> w.attempt + 1, status |-> "returned",
          value |-> res.value, error |-> NoError]
    ELSE IF ShouldRetry(res.error, w.attempt + 1)
    THEN [w EXCEPT !.attempt = w.attempt + 1]
    ELSE [attempt |-> w.attempt + 1, status |-> "raised",
          value |-> res.value, error |-> res.error]

NotCalled(cl) ==
    [attempt |-> 0, status |-> "running", value |-> WithoutCall(cl).value,
     error |-> NoError]

\* no registry call is followed in detail
RegistryIdle ==
    /\ call = NoCall
    /\ wrapper = [NotCalled(NoCall) EXCEPT !.status = "none"]
    /\ mutate_log = <<>>
    /\ remote_store = [op \in RemoteOperations(NoCall) |-> 0]

\* ---------------------------------------------------------------- Init
NoTask == [c \in Customers |-> <<>>]

\* nothing created, no job, no pass
\* ---------------------------------------------------------------- content pipeline
Urls == 1..NumUrls
Requests == 1..NumRequests

Min(a, b) == IF a < b THEN a ELSE b

\* the elements of a set of urls as a list
SortedSeq(S) ==
    CHOOSE q \in [1..Cardinality(S) -> S] :
        \A i, j \in 1..Cardinality(S) : i < j => q[i] < q[j]

\* what scrape_product_page returns: None, {'error': '503'}, scraped data
\* with an empty product list, scraped data with products
ScrapeOutcomes == {"None", "503", "no_products", "products"}

\* generate_product_content raised, or check_content_has_valid_links
AiOutcomes == {"raised", "no_valid_links", "valid_links"}

\* the local transaction of process_single_url: committed, or it raised and
\* the except branch could not or could record the failure
DbOutcomes == {"ok", "lost", "recorded"}

Outcome_mark_scrape_failed(url, scraped, ai) ==
    IF scraped \in {"None", "503"}
    THEN [status |-> "failed", reason |-> "scraping_failed", raised |-> FALSE,
          ops |-> <<<<"update_werkvoorraad", url>>>>]
    ELSE [status |-> "success", reason |-> "", raised |-> FALSE,
          ops |-> <<<<"insert_content", url>>, <<"update_werkvoorraad", url>>>>]

\* process_single_url before its local transaction: final_status,
\* final_reason and redshift_ops, or the KeyError of scraped_data['products']
Outcome(url, scraped, ai) ==
    IF scraped = "None"
    THEN [status |-> "failed", reason |-> "scraping_failed", raised |-> FALSE,
          ops |-> <<>>]
    ELSE IF scraped = "503"
    THEN [status |-> "failed", reason |-> "error", raised |-> TRUE, ops |-> <<>>]
    ELSE IF scraped = "no_products"
    THEN [status |-> "skipped", reason |-> "no_products_found", raised |-> FALSE,
          ops |-> <<<<"update_werkvoorraad", url>>>>]
    ELSE IF ai = "raised"
    THEN [status |-> "failed", reason |-> "ai_generation_error", raised |-> FALSE,
          ops |-> <<<<"update_werkvoorraad", url>>>>]
    ELSE IF ai = "no_valid_links"
    THEN [status |-> "failed", reason |-> "no_valid_links", raised |-> FALSE,
          ops |-> <<<<"update_werkvoorraad", url>>>>]
    ELSE [status |-> "success", reason |-> "", raised |-> FALSE,
          ops |-> <<<<"insert_content", url>>, <<"update_werkvoorraad", url>>>>]

\* the result dict process_single_url returns
Result(url, scraped, o, db) ==
    IF o.raised \/ db # "ok"
    THEN [url |-> url, status |-> "failed", reason |-> "error", scraped |-> scraped]
    ELSE [url |-> url, status |-> o.status, reason |-> o.reason, scraped |-> scraped]

\* the status process_single_url leaves in the tracking row of the url
Tracked(old, o, db) ==
    IF db = "lost" THEN old
    ELSE IF o.raised \/ db = "recorded" THEN "failed"
    ELSE o.status

\* SELECT url ... WHERE kopteksten = 0 LIMIT batch_size * 2: the row sets the
\* query may return
AllRows(batch_size) ==
    LET pending == {u \in Urls : kopteksten[u] = 0}
    IN {S \in SUBSET pending :
           Cardinality(S) = Min(batch_size * 2, Cardinality(pending))}

Rows_unfiltered(all_rows, successfully_processed_urls, batch_size) ==
    {S \in SUBSET all_rows : Cardinality(S) = Min(batch_size, Cardinality(all_rows))}

\* [row for row in all_rows if row['url'] not in successfully_processed_urls]
\* [:batch_size], for the orders the rows may come in
Rows(all_rows, successfully_processed_urls, batch_size) ==
    LET filtered == all_rows \ successfully_processed_urls
    IN {S \in SUBSET filtered :
           Cardinality(S) = Min(batch_size, Cardinality(filtered))}

NoRequest ==
    [pc |-> "idle", batch_size |-> 0, successfully_processed_urls |-> {},
     urls |-> <<>>, results |-> <<>>, all_redshift_ops |-> <<>>,
     response |-> "none"]

UrlIdle ==
    /\ kopteksten = [u \in Urls |-> 0]
    /\ tracking = [u \in Urls |-> "none"]
    /\ content_rows = [u \in Urls |-> 0]
    /\ request = [r \in Requests |-> NoRequest]

\* ---------------------------------------------------------------- Operation Builder
SeqsUpTo(S, n) == UNION {[1..k -> S] : k \in 0..n}

\* models.ExistingAd, the fields the builder reads
ExistingAd(urls, hs, ds, p1, p2) ==
    [resource_name |-> "ad", headlines |-> hs, descriptions |-> ds,
     final_urls |-> urls, path1 |-> p1, path2 |-> p2]

ExistingAds ==
    {ExistingAd(urls, hs, ds, p1, p2) :
        urls \in SeqsUpTo({"u1", "u2"}, MaxUrls),
        hs \in SeqsUpTo({"h1", "h2"}, MaxHeadlines),
        ds \in SeqsUpTo({"d1", "d2"}, MaxDescriptions),
        p1 \in {"", "p1"}, p2 \in {"", "p2"}}

\* self.theme
theme == "singles_day"

NoContent == [extra_headlines |-> <<>>, extra_descriptions |-> <<>>, path1 |-> ""]

\* generate_themed_content: the (extra_headlines, extra_descriptions, path1)
\* it may return; its text is the template's, not the builder's
generate_themed_content(th, base_headlines, base_description) ==
    {[extra_headlines |-> <<th, "t2">>, extra_descriptions |-> <<"td">>,
      path1 |-> th],
     [extra_headlines |-> <<th>>, extra_descriptions |-> <<"td", "td2">>,
      path1 |-> ""]}

NoAdData ==
    [ad_group_resource |-> "", final_url |-> "", headlines |-> <<>>,
     descriptions |-> <<>>, path1 |-> "", path2 |-> ""]

\* build_ad_data: the base texts first, the themed texts appended
build_ad_data(ad_group_resource, final_url, base_headlines, base_description, extra_headlines, extra_descriptions, path1, path2) ==
    [ad_group_resource |-> ad_group_resource, final_url |-> final_url,
     headlines |-> base_headlines \o extra_headlines,
     descriptions |-> <<base_description>> \o extra_descriptions,
     path1 |-> path1, path2 |-> path2]

base_headlines_all(existing_ad) == existing_ad.headlines

\* existing_ad.headlines[:3]
base_headlines_3(existing_ad) ==
    SubSeq(existing_ad.headlines, 1,
           IF Len(existing_ad.headlines) < 3 THEN Len(existing_ad.headlines) ELSE 3)

\* existing_ad.descriptions[0] if existing_ad.descriptions else ""
base_desc_1(existing_ad) ==
    IF existing_ad.descriptions # <<>> THEN existing_ad.descriptions[1] ELSE ""

\* existing_ad.path2 or existing_ad.path1 or ""
path2_or_path1(existing_ad) ==
    IF existing_ad.path2 # "" THEN existing_ad.path2
    ELSE IF existing_ad.path1 # "" THEN existing_ad.path1
    ELSE ""

NoBuild ==
    [status |-> "none", ad_data |-> NoAdData, generated |-> NoContent,
     ag_labels |-> <<>>, old_ad |-> ""]

\* _build_operations_for_ad_group with the cached existing ad, the labels map
\* and what the generator returns for the base texts
BuildResult(cached, labels, generated) ==
    IF cached = <<>> THEN [NoBuild EXCEPT !.status = "None"]
    ELSE IF cached[1].final_urls = <<>> THEN [NoBuild EXCEPT !.status = "None"]
    ELSE IF "BF_2025" \notin labels
         THEN [NoBuild EXCEPT !.status = "KeyError", !.generated = generated]
    ELSE [status |-> "result",
          ad_data |-> build_ad_data("adGroup", cached[1].final_urls[1],
                                    base_headlines_3(cached[1]),
                                    base_desc_1(cached[1]),
                                    generated.extra_headlines,
                                    generated.extra_descriptions,
                                    generated.path1,
                                    path2_or_path1(cached[1])),
          generated |-> generated,
          ag_labels |-> <<<<"adGroup", "BF_2025">>>>,
          old_ad |-> cached[1].resource_name]

BuilderIdle ==
    /\ cached_existing_ad = <<>>
    /\ builder_labels = {}
    /\ build = NoBuild

Quiescent ==
    /\ create_error = ""
    /\ ads_created = [k \in Keys |-> 0]
    /\ job = [status |-> "none", total |-> 0, processed |-> 0,
              successful |-> 0, failed |-> 0, skipped |-> 0]
    /\ items = <<>>
    /\ attempts = 0
    /\ pause_requested = FALSE
    /\ pass_inputs = <<>>
    /\ pc = [c \in Customers |-> "idle"]
    /\ semaphore = max_concurrent_customers
    /\ cached_labels = [c \in Customers |-> {}]
    /\ ad_operations = NoTask
    /\ new_ad_resources = NoTask
    /\ task_result = NoTask
    /\ remote_calls = NoTask
    /\ fault = [c \in Customers |-> "ok"]
    /\ pass_active = FALSE
    /\ recorded = 0

Init ==
    /\ RegistryIdle
    /\ BuilderIdle
    /\ UrlIdle
    /\ targets \in TargetLists
    /\ dry_run \in BOOLEAN
    /\ existing_ads \in [Keys -> AdKinds]
    /\ Cardinality({k \in Keys : existing_ads[k] # "ok"}) <= MaxAdless
    /\ \A k \in Keys :
          existing_ads[k] # "ok" =>
              /\ AdGroupInput(k[1], k[2]) \in Range(targets)
              /\ k[1] = 1
              /\ existing_ads[k] = (IF k[2] = 1 THEN "none" ELSE "nourl")
    /\ \E ls \in {{}, label_names \ {"THEMA_ORIGINAL"}} :
          remote_labels = [c \in Customers |-> ls]
    /\ ad_group_labels \in {{}, {<<1, 1>>}}
    /\ \A k \in ad_group_labels :
          AdGroupInput(k[1], k[2]) \in Range(targets) /\ existing_ads[k] = "ok"
    /\ Quiescent

\* ---------------------------------------------------------------- Job Orchestrator
NewItems_first(ts) ==
    [i \in 1..1 |-> [customer_id |-> ts[1].customer_id,
                     ad_group_id |-> ts[1].ad_group_id,
                     status |-> "pending"]]

\* JobItem rows created for the targets, all pending
NewItems(ts) ==
    [i \in 1..Len(ts) |-> [customer_id |-> ts[i].customer_id,
                           ad_group_id |-> ts[i].ad_group_id,
                           status |-> "pending"]]

SelectForPass_all(its) == its

\* items a pass processes: those left pending or failed
SelectForPass(its) ==
    SelectSeq(its, LAMBDA it : it.status \in {"pending", "failed"})

AsInputs(its) ==
    [i \in 1..Len(its) |-> AdGroupInput(its[i].customer_id, its[i].ad_group_id)]

\* the items of a job when a resume starts a new attempt: failed ones are
\* pending again
ResetFailed(its) ==
    [i \in 1..Len(its) |->
        IF its[i].status = "failed" THEN [its[i] EXCEPT !.status = "pending"]
        ELSE its[i]]

ResetCounters_kept(j) == j

\* the job row when a resume starts a new attempt
ResetCounters(j) ==
    [j EXCEPT !.processed = j.processed - j.failed, !.failed = 0]

\* JobItem status written for a result
ItemStatusOf(r) == IF r.success THEN "success" ELSE "failed"

\* the job row after one more item reached status st
CountResult(j, st) ==
    [j EXCEPT !.processed = @ + 1,
              !.successful = IF st = "success" THEN @ + 1 ELSE @,
              !.failed = IF st = "failed" THEN @ + 1 ELSE @,
              !.skipped = IF st = "skipped" THEN @ + 1 ELSE @]

StatusAtFinish_always(st) == "completed"

\* job status when the pass has written its last result
StatusAtFinish(st) == IF st = "running" THEN "completed" ELSE st

\* process_all is entered with the selected inputs: one task per customer
StartPass(inputs) ==
    /\ pass_inputs' = inputs
    /\ pass_active' = TRUE
    /\ recorded' = 0
    /\ LET order == CustomerOrder(inputs, {})
           in == Admitted(order, max_concurrent_customers)
       IN /\ pc' = [c \in Customers |->
                      IF c \in in THEN "prefetch"
                      ELSE IF c \in Range(order) THEN "waiting" ELSE "idle"]
          /\ semaphore' = max_concurrent_customers - Cardinality(in)
    /\ cached_labels' = [c \in Customers |-> {}]
    /\ ad_operations' = NoTask
    /\ new_ad_resources' = NoTask
    /\ task_result' = NoTask
    /\ remote_calls' = NoTask
    /\ fault' = [c \in Customers |-> "ok"]

EndPass ==
    /\ pass_active' = FALSE
    /\ pass_inputs' = <<>>
    /\ recorded' = 0
    /\ pc' = [c \in Customers |-> "idle"]
    /\ semaphore' = max_concurrent_customers
    /\ cached_labels' = [c \in Customers |-> {}]
    /\ ad_operations' = NoTask
    /\ new_ad_resources' = NoTask
    /\ task_result' = NoTask
    /\ remote_calls' = NoTask
    /\ fault' = [c \in Customers |-> "ok"]

\* create_job(targets): rejected with ValidationError when there is no target,
\* otherwise the Job and its JobItems are persisted
create_job ==
    /\ job.status = "none"
    /\ create_error = ""
    /\ IF targets = <<>>
       THEN /\ create_error' = "ValidationError"
            /\ UNCHANGED <<job, items>>
       ELSE /\ job' = [status |-> "pending", total |-> Len(targets),
                       processed |-> 0, successful |-> 0, failed |-> 0,
                       skipped |-> 0]
            /\ items' = NewItems(targets)
            /\ UNCHANGED create_error
    /\ UNCHANGED <<registryVars, builderVars, urlVars, configVars, remoteVars, attempts, pause_requested,
                   taskVars, passVars>>

process_job ==
    /\ job.status = "pending"
    /\ job' = [job EXCEPT !.status = "running"]
    /\ attempts' = attempts + Len(SelectForPass(items))
    /\ pause_requested' = FALSE
    /\ StartPass(AsInputs(SelectForPass(items)))
    /\ UNCHANGED <<registryVars, builderVars, urlVars, create_error, configVars, remoteVars, items>>

pause_job ==
    /\ job.status = "running"
    /\ job' = [job EXCEPT !.status = "paused"]
    /\ pause_requested' = TRUE
    /\ UNCHANGED <<registryVars, builderVars, urlVars, create_error, configVars, remoteVars, items, attempts, taskVars, passVars>>

resume_job ==
    /\ job.status \in {"paused", "failed"}
    /\ ~pass_active
    /\ attempts + Len(SelectForPass(items)) <= MaxAttempts
    /\ job' = [ResetCounters(job) EXCEPT !.status = "running"]
    /\ items' = ResetFailed(items)
    /\ attempts' = attempts + Len(SelectForPass(items))
    /\ pause_requested' = FALSE
    /\ StartPass(AsInputs(SelectForPass(ResetFailed(items))))
    /\ UNCHANGED <<registryVars, builderVars, urlVars, create_error, configVars, remoteVars>>

ItemOf_first(r) == 1

\* index of the JobItem a result belongs to
ItemOf(r) ==
    CHOOSE i \in 1..Len(items) :
        /\ items[i].customer_id = r.customer_id
        /\ items[i].ad_group_id = r.ad_group_id

\* one result of the finished process_all is written: item and counters
RecordResult ==
    /\ pass_active
    /\ TasksDone
    /\ recorded < Len(AllResults)
    /\ LET r == AllResults[recorded + 1]
           st == ItemStatusOf(r)
       IN /\ items' = [items EXCEPT ![ItemOf(r)].status = st]
          /\ job' = CountResult(job, st)
    /\ recorded' = recorded + 1
    /\ UNCHANGED <<registryVars, builderVars, urlVars, create_error, configVars, remoteVars, attempts, pause_requested, taskVars,
                   pass_inputs, pass_active>>

\* every result is written: the pass is over
FinishPass ==
    /\ pass_active
    /\ TasksDone
    /\ recorded = Len(AllResults)
    /\ job' = [job EXCEPT !.status = StatusAtFinish(job.status)]
    /\ EndPass
    /\ UNCHANGED <<registryVars, builderVars, urlVars, create_error, configVars, remoteVars, items, attempts, pause_requested>>

\* the store is unavailable when the orchestrator writes the results of a
\* running pass: the run is aborted, the items stay as they are
StoreFailure ==
    /\ pass_active
    /\ TasksDone
    /\ job.status = "running"
    /\ job' = [job EXCEPT !.status = "failed"]
    /\ EndPass
    /\ UNCHANGED <<registryVars, builderVars, urlVars, create_error, configVars, remoteVars, items, attempts, pause_requested>>

\* ---------------------------------------------------------------- process_customer
\* _build_operations_for_ad_group returns None: no cached existing ad, or an
\* existing ad without final_urls
BuildsNothing(kind) == kind = "none" \/ kind = "nourl"

\* _build_operations_for_ad_group for an ad group whose cached existing ad is
\* of this kind, with the labels map it is handed: None, the build result, or
\* the KeyError of labels["BF_2025"]
build_operations_for_ad_group(kind, labels) ==
    IF BuildsNothing(kind) THEN "None"
    ELSE IF DoneLabel \notin labels THEN "KeyError"
    ELSE "result"

\* ad groups of the operations appended to ad_operations, in input order
BuiltOps(c, inputs) ==
    LET built == SelectSeq(inputs,
                    LAMBDA t : ~BuildsNothing(existing_ads[<<c, t.ad_group_id>>]))
    IN [i \in 1..Len(built) |-> built[i].ad_group_id]

PositionalResults_created(c, inputs, new) ==
    [i \in 1..Len(new) |->
        ProcessingResult(c, inputs[i].ad_group_id, TRUE, new[i], "")]

\* the results of the normal path: success is decided by the position of the
\* input against the number of new ads
PositionalResults(c, inputs, new) ==
    [i \in 1..Len(inputs) |->
        ProcessingResult(c, inputs[i].ad_group_id, i <= Len(new),
                         IF i <= Len(new) THEN new[i] ELSE 0, "")]

\* the synthetic results of a dry run
DryRunResults(inputs) ==
    [i \in 1..Len(inputs) |->
        ProcessingResult(inputs[i].customer_id, inputs[i].ad_group_id, TRUE, 0, "")]

FailedResults_noerror(c, inputs, e) ==
    [i \in 1..Len(inputs) |->
        ProcessingResult(c, inputs[i].ad_group_id, FALSE, 0, "")]

\* the results of the except path: every input failed with str(e)
FailedResults(c, inputs, e) ==
    [i \in 1..Len(inputs) |->
        ProcessingResult(c, inputs[i].ad_group_id, FALSE, 0, e)]

\* str(e) of the exception a remote call raised
ErrorOf(name) ==
    CASE name = "prefetch" -> "prefetch_error"
      [] name = "mutate_labels" -> "labels_error"
      [] name = "create_rsa_batch" -> "publish_error"
      [] OTHER -> "label_error"

\* str(e) of the KeyError of a label name missing from the labels map
KeyErrorMessage == "KeyError"

Return_held(c, results) ==
    /\ task_result' = [task_result EXCEPT ![c] = results]
    /\ pc' = [pc EXCEPT ![c] = "done"]
    /\ semaphore' = semaphore

\* process_customer returns: the task leaves "async with semaphore"
Return(c, results) ==
    /\ task_result' = [task_result EXCEPT ![c] = results]
    /\ pc' = [pc EXCEPT ![c] = "done"]
    /\ semaphore' = semaphore + 1

Raise_abort(c, e) ==
    /\ task_result' = [d \in Customers |->
                          IF pc[d] \in {"idle", "done"} THEN task_result[d]
                          ELSE FailedResults(d, by_customer(pass_inputs, d), e)]
    /\ pc' = [d \in Customers |-> IF pc[d] = "idle" THEN "idle" ELSE "done"]
    /\ semaphore' = max_concurrent_customers

Raise_held(c, e) ==
    Return_held(c, FailedResults(c, by_customer(pass_inputs, c), e))

\* an exception reaches "except Exception as e"
Raise(c, e) == Return(c, FailedResults(c, by_customer(pass_inputs, c), e))

Called_per_target(c, name, how) ==
    /\ remote_calls' = [remote_calls EXCEPT ![c] =
                          @ \o [i \in 1..Len(by_customer(pass_inputs, c)) |-> name]]
    /\ fault' = [fault EXCEPT ![c] = IF how = "ok" THEN @ ELSE how]

\* a remote call of the task ended: "ok", "failed" (the remote rejected all or
\* part of a mutation, the caller goes on) or "raised"
Called(c, name, how) ==
    /\ remote_calls' = [remote_calls EXCEPT ![c] = Append(@, name)]
    /\ fault' = [fault EXCEPT ![c] = IF how = "ok" THEN @ ELSE how]

\* a task that waited for the semaphore is woken after a release: it enters
\* process_customer and awaits prefetch_customer_data
Acquire(c) ==
    /\ pc[c] = "waiting"
    /\ CanEnter(semaphore)
    /\ semaphore' = semaphore - 1
    /\ pc' = [pc EXCEPT ![c] = "prefetch"]
    /\ UNCHANGED <<registryVars, builderVars, urlVars, create_error, configVars, remoteVars, storeVars, passVars, cached_labels,
                   ad_operations, new_ad_resources, task_result, remote_calls,
                   fault>>

\* prefetch_customer_data returns the snapshot or raises
Prefetch(c) ==
    /\ pc[c] = "prefetch"
    /\ \/ /\ Called(c, "prefetch", "ok")
          /\ pc' = [pc EXCEPT ![c] = "ensure"]
          /\ UNCHANGED <<semaphore, task_result>>
       \/ /\ Called(c, "prefetch", "raised")
          /\ Raise(c, ErrorOf("prefetch"))
    /\ UNCHANGED <<registryVars, builderVars, urlVars, create_error, configVars, remoteVars, storeVars, passVars, cached_labels,
                   ad_operations, new_ad_resources>>

BuildAll_label_first(c, labels) ==
    /\ cached_labels' = [cached_labels EXCEPT ![c] = labels]
    /\ ad_operations' = [ad_operations EXCEPT ![c] =
                            BuiltOps(c, by_customer(pass_inputs, c))]
    /\ pc' = [pc EXCEPT ![c] = "label_old"]
    /\ UNCHANGED <<semaphore, task_result>>

\* after ensure_labels_exist returned the map: the operations are built,
\* labels["BF_2025"] is read for each built one; a dry run returns here,
\* otherwise create_rsa_batch is awaited
BuildAll(c, labels) ==
    LET inputs == by_customer(pass_inputs, c)
        ops == BuiltOps(c, inputs)
    IN /\ cached_labels' = [cached_labels EXCEPT ![c] = labels]
       /\ IF \E i \in DOMAIN inputs :
                build_operations_for_ad_group(
                    existing_ads[<<c, inputs[i].ad_group_id>>], labels) = "KeyError"
          THEN /\ Raise(c, KeyErrorMessage)
               /\ UNCHANGED ad_operations
          ELSE IF dry_run
          THEN /\ Return(c, DryRunResults(inputs))
               /\ UNCHANGED ad_operations
          ELSE /\ ad_operations' = [ad_operations EXCEPT ![c] = ops]
               /\ pc' = [pc EXCEPT ![c] = "publish"]
               /\ UNCHANGED <<semaphore, task_result>>

\* ensure_labels_exist: nothing needed, created, GoogleAdsException swallowed,
\* or another error raised
EnsureLabels(c) ==
    /\ pc[c] = "ensure"
    /\ LET needed == label_names \ remote_labels[c]
       IN \/ /\ needed = {}
             /\ BuildAll(c, remote_labels[c])
             /\ UNCHANGED <<remote_labels, remote_calls, fault>>
          \/ /\ needed # {}
             /\ \/ /\ Called(c, "mutate_labels", "ok")
                   /\ remote_labels' = [remote_labels EXCEPT ![c] = @ \cup needed]
                   /\ BuildAll(c, remote_labels[c] \cup needed)
                \/ /\ Called(c, "mutate_labels", "failed")
                   /\ BuildAll(c, remote_labels[c])
                   /\ UNCHANGED remote_labels
                \/ /\ Called(c, "mutate_labels", "raised")
                   /\ Raise(c, ErrorOf("mutate_labels"))
                   /\ UNCHANGED <<remote_labels, cached_labels, ad_operations>>
    /\ UNCHANGED <<registryVars, builderVars, urlVars, create_error, configVars, existing_ads, ad_group_labels, ads_created, storeVars,
                   passVars, new_ad_resources>>

\* the ads the remote created for a set of positions of the batch
Subsequence(ops, S) ==
    LET idx == SelectSeq([i \in 1..Len(ops) |-> i], LAMBDA i : i \in S)
    IN [j \in 1..Len(idx) |-> ops[idx[j]]]

\* create_rsa_batch returned new: the old ads are labeled next
AfterPublish(c, new) ==
    IF ad_operations[c] = <<>>
    THEN Return(c, PositionalResults(c, by_customer(pass_inputs, c), new))
    ELSE IF "THEMA_ORIGINAL" \notin cached_labels[c]
    THEN Raise(c, KeyErrorMessage)
    ELSE /\ pc' = [pc EXCEPT ![c] = "label_old"]
         /\ UNCHANGED <<semaphore, task_result>>

\* create_rsa_batch: all or part of the batch is created, or it raises
Publish(c) ==
    /\ pc[c] = "publish"
    /\ \/ \E S \in SUBSET (1..Len(ad_operations[c])) :
             LET new == Subsequence(ad_operations[c], S)
             IN /\ Called(c, "create_rsa_batch",
                          IF Len(new) = Len(ad_operations[c]) THEN "ok" ELSE "failed")
                /\ new_ad_resources' = [new_ad_resources EXCEPT ![c] = new]
                /\ ads_created' = [k \in Keys |->
                      IF k[1] = c /\ k[2] \in Range(new)
                      THEN ads_created[k] + 1 ELSE ads_created[k]]
                /\ AfterPublish(c, new)
       \/ /\ Called(c, "create_rsa_batch", "raised")
          /\ Raise(c, ErrorOf("create_rsa_batch"))
          /\ UNCHANGED <<new_ad_resources, ads_created>>
    /\ UNCHANGED <<registryVars, builderVars, urlVars, create_error, configVars, existing_ads, remote_labels, ad_group_labels,
                   storeVars, passVars, cached_labels, ad_operations>>

\* label_ads_batch on the old ads returned: the new ads are labeled next
AfterLabelOld(c) ==
    IF new_ad_resources[c] = <<>>
    THEN /\ pc' = [pc EXCEPT ![c] = "label_ag"]
         /\ UNCHANGED <<semaphore, task_result>>
    ELSE IF ~({"SINGLES_DAY", "THEMA_AD"} \subseteq cached_labels[c])
    THEN Raise(c, KeyErrorMessage)
    ELSE /\ pc' = [pc EXCEPT ![c] = "label_new"]
         /\ UNCHANGED <<semaphore, task_result>>

\* label_ads_batch (old ads): applied or GoogleAdsException swallowed, or
\* another error raised
LabelOld(c) ==
    /\ pc[c] = "label_old"
    /\ \/ \E how \in {"ok", "failed"} :
             Called(c, "label_ads_old", how) /\ AfterLabelOld(c)
       \/ Called(c, "label_ads_old", "raised") /\ Raise(c, ErrorOf("label_ads_old"))
    /\ UNCHANGED <<registryVars, builderVars, urlVars, create_error, configVars, remoteVars, storeVars, passVars, cached_labels,
                   ad_operations, new_ad_resources>>

\* label_ads_batch (new ads)
LabelNew(c) ==
    /\ pc[c] = "label_new"
    /\ \/ /\ \E how \in {"ok", "failed"} : Called(c, "label_ads_new", how)
          /\ pc' = [pc EXCEPT ![c] = "label_ag"]
          /\ UNCHANGED <<semaphore, task_result>>
       \/ Called(c, "label_ads_new", "raised") /\ Raise(c, ErrorOf("label_ads_new"))
    /\ UNCHANGED <<registryVars, builderVars, urlVars, create_error, configVars, remoteVars, storeVars, passVars, cached_labels,
                   ad_operations, new_ad_resources>>

\* label_ad_groups_batch, then the results are built
LabelAdGroups(c) ==
    /\ pc[c] = "label_ag"
    /\ \/ /\ Called(c, "label_ad_groups", "ok")
          /\ ad_group_labels' =
                ad_group_labels \cup {<<c, g>> : g \in Range(ad_operations[c])}
          /\ Return(c, PositionalResults(c, by_customer(pass_inputs, c),
                                         new_ad_resources[c]))
       \/ /\ Called(c, "label_ad_groups", "failed")
          /\ UNCHANGED ad_group_labels
          /\ Return(c, PositionalResults(c, by_customer(pass_inputs, c),
                                         new_ad_resources[c]))
       \/ /\ Called(c, "label_ad_groups", "raised")
          /\ UNCHANGED ad_group_labels
          /\ Raise(c, ErrorOf("label_ad_groups"))
    /\ UNCHANGED <<registryVars, builderVars, urlVars, create_error, configVars, existing_ads, remote_labels, ads_created, storeVars,
                   passVars, cached_labels, ad_operations, new_ad_resources>>

Next ==
    \/ create_job
    \/ process_job
    \/ pause_job
    \/ resume_job
    \/ RecordResult
    \/ FinishPass
    \/ StoreFailure
    \/ \E c \in Customers : Acquire(c)
    \/ \E c \in Customers : Prefetch(c)
    \/ \E c \in Customers : EnsureLabels(c)
    \/ \E c \in Customers : Publish(c)
    \/ \E c \in Customers : LabelOld(c)
    \/ \E c \in Customers : LabelNew(c)
    \/ \E c \in Customers : LabelAdGroups(c)

Spec == Init /\ [][Next]_vars

\* a step of the task of one account: its remote call returns or raises
TaskStep(c) ==
    \/ Acquire(c)
    \/ Prefetch(c)
    \/ EnsureLabels(c)
    \/ Publish(c)
    \/ LabelOld(c)
    \/ LabelNew(c)
    \/ LabelAdGroups(c)

\* the event loop runs every task that can run, every remote call ends, and
\* the orchestrator writes the results it has and closes the pass
\* the inputs followed to the end of the job: every target has a usable ad
\* and none carries the done label
LiveInit ==
    /\ Init
    /\ ad_group_labels = {}
    /\ \A k \in Keys : existing_ads[k] = "ok"

LiveSpec ==
    /\ LiveInit
    /\ [][Next]_vars
    /\ \A c \in Customers : WF_vars(TaskStep(c))
    /\ WF_vars(RecordResult)
    /\ WF_vars(FinishPass)

\* ---------------------------------------------------------------- one registry call
\* what one invocation of the function makes of the remote's answer
Body(cl, ops, a) ==
    IF cl.fn = "ensure_labels_exist" THEN ensure(cl.existing_labels, ops, a)
    ELSE label(ops, a)

\* async_retry invokes the function once more: it builds its operations, sends
\* them in one mutation unless there are none, and returns or raises
Invoke ==
    /\ wrapper.status = "running"
    /\ LET ops == Operations(call)
       IN IF ops = <<>>
          THEN /\ wrapper' = async_retry(wrapper, WithoutCall(call))
               /\ UNCHANGED <<mutate_log, remote_store>>
          ELSE \E a \in RemoteAnswers(ops, remote_store) :
                  /\ mutate_log' = Append(mutate_log, [sent |-> ops, answer |-> a])
                  /\ remote_store' = Applied(remote_store, ops, a)
                  /\ wrapper' = async_retry(wrapper, Body(call, ops, a))
    /\ UNCHANGED <<call, builderVars, urlVars, create_error, configVars, remoteVars, storeVars, taskVars,
                   passVars>>

ensure_labels_exist == call.fn = "ensure_labels_exist" /\ Invoke

label_ads_batch == call.fn = "label_ads_batch" /\ Invoke

label_ad_groups_batch == call.fn = "label_ad_groups_batch" /\ Invoke

\* a call of one registry function on an account whose remote holds the
\* labels of the known map; the processor itself is at rest
RegistryInit ==
    /\ targets = <<>>
    /\ dry_run = FALSE
    /\ existing_ads = [k \in Keys |-> "ok"]
    /\ remote_labels = [c \in Customers |-> {}]
    /\ ad_group_labels = {}
    /\ Quiescent
    /\ BuilderIdle
    /\ UrlIdle
    /\ call \in Calls
    /\ wrapper = NotCalled(call)
    /\ mutate_log = <<>>
    /\ remote_store = [op \in RemoteOperations(call) |->
                          IF op \in call.existing_labels THEN 1 ELSE 0]

RegistryNext ==
    \/ ensure_labels_exist
    \/ label_ads_batch
    \/ label_ad_groups_batch

RegistrySpec == RegistryInit /\ [][RegistryNext]_vars

\* ---------------------------------------------------------------- one builder call
\* one call of _build_operations_for_ad_group for an ad group
BuildAdGroup ==
    /\ build.status = "none"
    /\ \E generated \in
            IF cached_existing_ad = <<>> THEN {NoContent}
            ELSE IF cached_existing_ad[1].final_urls = <<>> THEN {NoContent}
            ELSE generate_themed_content(theme,
                                         base_headlines_3(cached_existing_ad[1]),
                                         base_desc_1(cached_existing_ad[1])) :
          build' = BuildResult(cached_existing_ad, builder_labels, generated)
    /\ UNCHANGED <<cached_existing_ad, builder_labels, registryVars, urlVars, create_error,
                   configVars, remoteVars, storeVars, taskVars, passVars>>

BuilderInit ==
    /\ targets = <<>>
    /\ dry_run = FALSE
    /\ existing_ads = [k \in Keys |-> "ok"]
    /\ remote_labels = [c \in Customers |-> {}]
    /\ ad_group_labels = {}
    /\ Quiescent
    /\ RegistryIdle
    /\ UrlIdle
    /\ cached_existing_ad \in {<<>>} \cup {<<a>> : a \in ExistingAds}
    /\ builder_labels \in {label_names, label_names \ {"BF_2025"}}
    /\ build = NoBuild

BuilderNext == BuildAdGroup

BuilderSpec == BuilderInit /\ [][BuilderNext]_vars

\* ---------------------------------------------------------------- process_urls
otherVars ==
    <<configVars, remoteVars, storeVars, taskVars, passVars, registryVars,
      builderVars, create_error>>

\* the handler is an async function that never awaits: one event loop runs
\* its requests one after another
NoOtherRequest(r) == \A q \in Requests \ {r} : request[q].pc = "idle"

\* a request arrives: the parameters are validated
Validate(r, batch_size, parallel_workers) ==
    /\ request[r].pc = "idle"
    /\ IF batch_size < 1 \/ parallel_workers < 1 \/ parallel_workers > 10
       THEN request' = [request EXCEPT ![r] = [NoRequest EXCEPT !.response = "invalid"]]
       ELSE request' = [request EXCEPT ![r] =
                          [NoRequest EXCEPT !.pc = "read_local",
                                            !.batch_size = batch_size]]
    /\ UNCHANGED <<kopteksten, tracking, content_rows, otherVars>>

\* SELECT url FROM the tracking table WHERE status = 'success'
ReadLocal(r) ==
    /\ request[r].pc = "read_local"
    /\ \/ request' = [request EXCEPT
                         ![r].successfully_processed_urls =
                             {u \in Urls : tracking[u] = "success"},
                         ![r].pc = "fetch"]
       \/ request' = [request EXCEPT ![r] = [NoRequest EXCEPT !.response = "error"]]
    /\ UNCHANGED <<kopteksten, tracking, content_rows, otherVars>>

\* the work queue is read and the rows of the request are chosen
FetchRows(r) ==
    /\ request[r].pc = "fetch"
    /\ \/ \E all_rows \in AllRows(request[r].batch_size) :
             \E rows \in Rows(all_rows, request[r].successfully_processed_urls,
                              request[r].batch_size) :
                 IF rows = {}
                 THEN request' = [request EXCEPT
                                    ![r] = [NoRequest EXCEPT !.response = "complete"]]
                 ELSE request' = [request EXCEPT ![r].urls = SortedSeq(rows),
                                                 ![r].pc = "process"]
       \/ request' = [request EXCEPT ![r] = [NoRequest EXCEPT !.response = "error"]]
    /\ UNCHANGED <<kopteksten, tracking, content_rows, otherVars>>

\* process_single_url for the next url of the request
ProcessSingleUrl(r) ==
    /\ request[r].pc = "process"
    /\ LET url == request[r].urls[Len(request[r].results) + 1]
       IN \E scraped \in ScrapeOutcomes, ai \in AiOutcomes, db \in DbOutcomes :
            LET o == Outcome(url, scraped, ai)
            IN /\ tracking' = [tracking EXCEPT ![url] = Tracked(@, o, db)]
               /\ request' = [request EXCEPT
                     ![r].results = Append(@, Result(url, scraped, o, db)),
                     ![r].all_redshift_ops = @ \o o.ops,
                     ![r].pc = IF Len(request[r].results) + 1 = Len(request[r].urls)
                               THEN "write" ELSE "process"]
    /\ UNCHANGED <<kopteksten, content_rows, otherVars>>

\* the batched output write: committed, or it raises and nothing is written
ExecuteBatch(r) ==
    /\ request[r].pc = "write"
    /\ LET ops == request[r].all_redshift_ops
           inserted(u) == Cardinality({i \in DOMAIN ops : ops[i] = <<"insert_content", u>>})
       IN \/ /\ content_rows' = [u \in Urls |-> content_rows[u] + inserted(u)]
             /\ kopteksten' = [u \in Urls |->
                   IF <<"update_werkvoorraad", u>> \in Range(ops) THEN 1
                   ELSE kopteksten[u]]
             /\ request' = [request EXCEPT ![r] = [NoRequest EXCEPT !.response = "success"]]
          \/ /\ ops # <<>>
             /\ request' = [request EXCEPT ![r] = [NoRequest EXCEPT !.response = "error"]]
             /\ UNCHANGED <<kopteksten, content_rows>>
    /\ UNCHANGED <<tracking, otherVars>>

UrlInit ==
    /\ targets = <<>>
    /\ dry_run = FALSE
    /\ existing_ads = [k \in Keys |-> "ok"]
    /\ remote_labels = [c \in Customers |-> {}]
    /\ ad_group_labels = {}
    /\ Quiescent
    /\ RegistryIdle
    /\ BuilderIdle
    /\ UrlIdle

\* requests served one at a time
UrlNext ==
    \E r \in Requests :
        \/ \E batch_size \in 0..MaxBatch, parallel_workers \in {0, 1} :
              NoOtherRequest(r) /\ Validate(r, batch_size, parallel_workers)
        \/ ReadLocal(r)
        \/ FetchRows(r)
        \/ ProcessSingleUrl(r)
        \/ ExecuteBatch(r)

UrlSpec == UrlInit /\ [][UrlNext]_vars

\* requests served by several server processes at once
ConcurrentUrlNext ==
    \E r \in Requests :
        \/ \E batch_size \in 0..MaxBatch, parallel_workers \in {0, 1} :
              Validate(r, batch_size, parallel_workers)
        \/ ReadLocal(r)
        \/ FetchRows(r)
        \/ ProcessSingleUrl(r)
        \/ ExecuteBatch(r)

\* the last url of the queue has been processed with success before
ConcurrentUrlInit ==
    /\ targets = <<>>
    /\ dry_run = FALSE
    /\ existing_ads = [k \in Keys |-> "ok"]
    /\ remote_labels = [c \in Customers |-> {}]
    /\ ad_group_labels = {}
    /\ Quiescent
    /\ RegistryIdle
    /\ BuilderIdle
    /\ kopteksten = [u \in Urls |-> IF u = NumUrls THEN 1 ELSE 0]
    /\ tracking = [u \in Urls |-> IF u = NumUrls THEN "success" ELSE "none"]
    /\ content_rows = [u \in Urls |-> IF u = NumUrls THEN 1 ELSE 0]
    /\ request = [r \in Requests |-> NoRequest]

ConcurrentUrlSpec == ConcurrentUrlInit /\ [][ConcurrentUrlNext]_vars

TypeOK ==
    /\ job.status \in {"none", "pending", "running", "completed", "paused", "failed"}
    /\ semaphore \in 0..max_concurrent_customers
    /\ \A c \in Customers : fault[c] \in {"ok", "failed", "raised"}

\* ---------------------------------------------------------------- properties
CountStatus(st) == Cardinality({i \in DOMAIN items : items[i].status = st})

\* the pass under way belongs to a resume: more attempts than items
Resumed == attempts > job.total

\* C1: in every reachable state of the job, processed = successful + failed +
\* skipped and processed <= total
C1_ProcessedIsSum ==
    /\ job.processed = job.successful + job.failed + job.skipped
    /\ job.processed <= job.total

\* a resumed pass has written an item that failed again
C1_Witness == Resumed /\ recorded > 0 /\ job.failed > 0

\* C2: in every reachable state the job's successful, failed and skipped
\* counters equal the numbers of its items in those statuses
C2_CountersMatchItems ==
    /\ job.successful = CountStatus("success")
    /\ job.failed = CountStatus("failed")
    /\ job.skipped = CountStatus("skipped")

\* after a resume the job has items of both outcomes written
C2_Witness == Resumed /\ job.successful > 0 /\ job.failed > 0 /\ recorded > 0

AllowedTransitions ==
    {<<"pending", "running">>, <<"running", "completed">>,
     <<"running", "paused">>, <<"running", "failed">>,
     <<"paused", "running">>, <<"failed", "running">>}

\* C3: every change of the job's status is pending->running,
\* running->completed, running->paused, running->failed, paused->running or
\* failed->running; a created job starts pending
C3_JobTransitions ==
    [][/\ (job.status # "none" /\ job'.status # job.status
              => <<job.status, job'.status>> \in AllowedTransitions)
       /\ (job.status = "none" => job'.status \in {"none", "pending"})]_vars

\* a job that was paused or failed and resumed has completed
C3_Witness == Resumed /\ job.status = "completed"

ItemInput(it) == AdGroupInput(it.customer_id, it.ad_group_id)

\* C4: an item in status success keeps that status and is in the inputs of no
\* pass started afterwards; a pass starts only with items pending or failed
C4_SuccessIsFinal ==
    [][\A i \in DOMAIN items :
          /\ items[i].status = "success" =>
                /\ items'[i].status = "success"
                /\ (pass_inputs' # pass_inputs =>
                        ItemInput(items[i]) \notin Range(pass_inputs'))
          /\ (pass_inputs' # pass_inputs /\ ItemInput(items[i]) \in Range(pass_inputs')
                => items[i].status \in {"pending", "failed"})]_vars

\* a resumed pass is under way on a job that has an item in status success
C4_Witness ==
    /\ Resumed
    /\ pass_active
    /\ pass_inputs # <<>>
    /\ \E i \in DOMAIN items : items[i].status = "success"

\* C5: an ad group that carries the done label when the publish batch is
\* submitted is not in the batch, and no ad group gets a second themed ad
C5_DoneLabelSkipped ==
    /\ \A c \in Customers :
          pc[c] = "publish" =>
              \A g \in Range(ad_operations[c]) : <<c, g>> \notin ad_group_labels
    /\ \A k \in Keys : ads_created[k] <= 1

\* C6: at no time are more than max_concurrent_customers accounts inside
\* process_customer
C6_BoundedInFlight == Cardinality(InFlight) <= max_concurrent_customers

\* the limiter is full while another account's task waits for it
C6_Witness ==
    /\ Cardinality(InFlight) = max_concurrent_customers
    /\ \E c \in Customers : pc[c] = "waiting"

\* C7: once pause_job was requested, an account whose task has not entered
\* process_customer does not enter it
C7_PauseStopsDispatch ==
    [][\A c \in Customers :
          pause_requested /\ pc[c] = "waiting" => pc'[c] = "waiting"]_vars

\* every remote call of every account of the pass succeeded, and the results
\* are written
CleanPassWritten ==
    /\ pass_active
    /\ ~dry_run
    /\ TasksDone
    /\ pass_inputs # <<>>
    /\ recorded = Len(AllResults)
    /\ \A c \in Customers : fault[c] = "ok"

\* C8: after a pass in which every remote call succeeded, every target of the
\* pass with an existing ad that has a final url is success, every other
\* target of the pass is skipped, and no item of the pass is failed
C8_CleanPassOutcome ==
    CleanPassWritten =>
        \A i \in DOMAIN items :
            ItemInput(items[i]) \in Range(pass_inputs) =>
                /\ items[i].status # "failed"
                /\ (existing_ads[<<items[i].customer_id, items[i].ad_group_id>>] = "ok"
                        => items[i].status = "success")
                /\ (existing_ads[<<items[i].customer_id, items[i].ad_group_id>>] # "ok"
                        => items[i].status = "skipped")

\* C9: when the publish batch created an ad for every target of the account
\* and every label is resolved, every target's result is success, whatever
\* the label calls did afterwards
C9_LabelFailureKeepsSuccess ==
    \A c \in Customers :
        /\ pc[c] = "done"
        /\ new_ad_resources[c] # <<>>
        /\ Len(new_ad_resources[c]) = Len(by_customer(pass_inputs, c))
        /\ label_names \subseteq cached_labels[c]
        => \A i \in DOMAIN task_result[c] : task_result[c][i].success

\* the task of the account ended because prefetch or ensure-labels raised
AbortedEarly(c) ==
    /\ pc[c] = "done"
    /\ fault[c] = "raised"
    /\ remote_calls[c][Len(remote_calls[c])] \in {"prefetch", "mutate_labels"}

\* C10: when prefetch or ensure-labels raised for an account, no publish
\* mutation was issued for it and each of its targets is reported failed with
\* the exception's message
C10_EarlyFailureAbortsAccount ==
    \A c \in Customers :
        AbortedEarly(c) =>
            /\ "create_rsa_batch" \notin Range(remote_calls[c])
            /\ Len(task_result[c]) = Len(by_customer(pass_inputs, c))
            /\ \A i \in DOMAIN task_result[c] :
                  /\ task_result[c][i].customer_id = c
                  /\ task_result[c][i].ad_group_id =
                        by_customer(pass_inputs, c)[i].ad_group_id
                  /\ ~task_result[c][i].success
                  /\ task_result[c][i].error =
                        ErrorOf(remote_calls[c][Len(remote_calls[c])])

\* ensure-labels raised for an account with two targets
C10_Witness ==
    \E c \in Customers :
        /\ AbortedEarly(c)
        /\ remote_calls[c] = <<"prefetch", "mutate_labels">>
        /\ Len(task_result[c]) = 2

\* the step in which the task of account c ends with failed results that carry
\* an error: an exception reached the except block of process_customer
FailsNow(c) ==
    /\ pc[c] # "done"
    /\ pc'[c] = "done"
    /\ \E i \in DOMAIN task_result'[c] :
          ~task_result'[c][i].success /\ task_result'[c][i].error # ""

\* C11: the step in which one account's pass fails by an exception leaves the
\* task, the remote calls and the results of every other account as they are,
\* frees the account's place in the limiter so that a waiting account can be
\* dispatched, and changes neither the job nor its items
C11_AccountFailureIsolated ==
    [][\A c \in Customers :
          FailsNow(c) =>
              /\ \A d \in Customers \ {c} :
                    /\ pc'[d] = pc[d]
                    /\ task_result'[d] = task_result[d]
                    /\ remote_calls'[d] = remote_calls[d]
                    /\ fault'[d] = fault[d]
                    /\ new_ad_resources'[d] = new_ad_resources[d]
              /\ semaphore' = semaphore + 1
              /\ CanEnter(semaphore')
              /\ job' = job
              /\ items' = items]_vars

\* account 1 failed by an exception, account 3 was dispatched afterwards and
\* ended with success for its target while account 2 is still in flight
C11_Witness ==
    /\ ~dry_run
    /\ pc[1] = "done"
    /\ \E i \in DOMAIN task_result[1] : task_result[1][i].error # ""
    /\ 2 \in InFlight
    /\ pc[3] = "done"
    /\ task_result[3] # <<>>
    /\ \A i \in DOMAIN task_result[3] : task_result[3][i].success

\* C16: in one pass of process_customer the prefetch is called exactly once,
\* before every other remote call, and no remote call is made twice, so the
\* number of remote calls of the pass does not grow with the account's targets
C16_ConstantCalls ==
    \A c \in Customers :
        /\ \A i, j \in DOMAIN remote_calls[c] :
              i # j => remote_calls[c][i] # remote_calls[c][j]
        /\ remote_calls[c] # <<>> => remote_calls[c][1] = "prefetch"
        /\ pc[c] \notin {"idle", "waiting", "prefetch"}
              => "prefetch" \in Range(remote_calls[c])

\* an account with two targets and an account with one target went through
\* the same six remote calls
C16_Witness ==
    \E c, d \in Customers :
        /\ Len(by_customer(pass_inputs, c)) = 2
        /\ Len(by_customer(pass_inputs, d)) = 1
        /\ pc[c] = "done" /\ pc[d] = "done"
        /\ remote_calls[c] = remote_calls[d]
        /\ remote_calls[c] = <<"prefetch", "mutate_labels", "create_rsa_batch",
                               "label_ads_old", "label_ads_new", "label_ad_groups">>

\* C17: in a dry run no task issues a remote call that changes anything (the
\* prefetch is the only remote call), no ad is created, and a task that met no
\* exception returns success for each of its targets
C17_DryRunChangesNothing ==
    dry_run =>
        /\ \A c \in Customers : Range(remote_calls[c]) \subseteq {"prefetch"}
        /\ \A k \in Keys : ads_created[k] = 0
        /\ \A c \in Customers :
              pc[c] = "done" /\ fault[c] = "ok"
                  => \A i \in DOMAIN task_result[c] : task_result[c][i].success

\* C18: a task that returned has one result per input of its account, in input
\* order, each with the account's id and the input's ad-group id, whichever
\* path it returned by; and when every task has returned process_all has
\* exactly one result for each input of the pass
C18_OneResultPerInput ==
    /\ \A c \in Customers :
          pc[c] = "done" =>
              /\ Len(task_result[c]) = Len(by_customer(pass_inputs, c))
              /\ \A i \in DOMAIN task_result[c] :
                    /\ task_result[c][i].customer_id = c
                    /\ task_result[c][i].ad_group_id =
                          by_customer(pass_inputs, c)[i].ad_group_id
    /\ (pass_active /\ TasksDone) =>
          /\ Len(AllResults) = Len(pass_inputs)
          /\ \A t \in Range(pass_inputs) :
                Cardinality({i \in DOMAIN AllResults :
                    /\ AllResults[i].customer_id = t.customer_id
                    /\ AllResults[i].ad_group_id = t.ad_group_id}) = 1

\* a pass of three targets ended: one account by an exception, one with a
\* batch that created ads for only part of its targets
C18_Witness ==
    /\ pass_active
    /\ TasksDone
    /\ ~dry_run
    /\ Len(pass_inputs) = 3
    /\ Len(AllResults) = 3
    /\ \E c \in Customers : fault[c] = "raised" /\ task_result[c] # <<>>
    /\ \E c \in Customers :
          /\ Len(task_result[c]) = 2
          /\ Len(new_ad_resources[c]) = 1

\* the build loop of the account's task has run
BuilderRan(c) ==
    \/ pc[c] \in {"publish", "label_old", "label_new", "label_ag"}
    \/ pc[c] = "done" /\ ~AbortedEarly(c)

\* C19: for every input of a task whose build loop has run, the builder
\* returned None when the ad group has no cached existing ad or the ad has no
\* final url, and a build result otherwise: it did not fail; and the
\* operations submitted are those of the ad groups with a usable ad
C19_BuilderNullOnlyWithoutUrl ==
    \A c \in Customers :
        /\ BuilderRan(c) =>
              \A t \in Range(by_customer(pass_inputs, c)) :
                  build_operations_for_ad_group(
                      existing_ads[<<c, t.ad_group_id>>], cached_labels[c])
                  = (IF existing_ads[<<c, t.ad_group_id>>] = "ok"
                     THEN "result" ELSE "None")
        /\ pc[c] = "publish" =>
              Range(ad_operations[c]) =
                  {t.ad_group_id : t \in {u \in Range(by_customer(pass_inputs, c)) :
                                             existing_ads[<<c, u.ad_group_id>>] = "ok"}}

TerminalStatuses == {"success", "failed", "skipped"}

\* C21: an item's status changes only from pending to one of success, failed
\* or skipped, or from failed back to pending in the step of a resume that
\* starts a new attempt; each result written changes exactly one item, which
\* was pending
C21_ItemWrittenOnce ==
    [][/\ \A i \in DOMAIN items \cap DOMAIN items' :
             items'[i].status # items[i].status =>
                 \/ /\ items[i].status = "pending"
                    /\ items'[i].status \in TerminalStatuses
                 \/ /\ items[i].status = "failed"
                    /\ items'[i].status = "pending"
                    /\ job.status \in {"paused", "failed"}
                    /\ job'.status = "running"
                    /\ attempts' > attempts
       /\ recorded' = recorded + 1 =>
             /\ DOMAIN items' = DOMAIN items
             /\ Cardinality({i \in DOMAIN items : items'[i] # items[i]}) = 1
             /\ \A i \in DOMAIN items :
                   items'[i] # items[i] => items[i].status = "pending"]_vars

\* in the attempt of a resume every result is written, one of them for an
\* item that had failed in the attempt before
C21_Witness ==
    /\ Resumed
    /\ pass_active
    /\ TasksDone
    /\ recorded > 0
    /\ recorded = Len(AllResults)
    /\ job.failed > 0

\* C22: a job that is running eventually is completed, or failed after the
\* store failed, or paused after a pause was requested; and whenever a job is
\* completed every one of its items is success, failed or skipped
C22_EventuallyCompleted ==
    /\ [](job.status = "completed" =>
             \A i \in DOMAIN items : items[i].status \in TerminalStatuses)
    /\ [](job.status = "paused" => pause_requested)
    /\ (job.status = "running" ~> job.status \in {"completed", "failed", "paused"})

\* a job of three targets in three accounts is completed
C22_Witness ==
    /\ job.status = "completed"
    /\ Len(items) = 3
    /\ Len(CustomerOrder(targets, {})) = 3
    /\ ~pause_requested

\* C23: outside a dry run, when every remote call of an account's pass
\* succeeded in full, the new ad in each result reported success is the ad
\* that was created in the ad group of that result's target
C23_AdBelongsToTarget ==
    ~dry_run =>
        \A c \in Customers :
            \A i \in DOMAIN task_result[c] :
                (fault[c] = "ok" /\ task_result[c][i].success) =>
                    task_result[c][i].new_ad_resource = task_result[c][i].ad_group_id

\* the task returned by the normal path with the results of a publish batch
\* that created fewer ads than it had operations
ShortResponse(c) ==
    /\ pc[c] = "done"
    /\ "create_rsa_batch" \in Range(remote_calls[c])
    /\ Len(new_ad_resources[c]) < Len(ad_operations[c])
    /\ \A i \in DOMAIN task_result[c] : task_result[c][i].error = ""

\* C24: when the publish batch created fewer ads than it had operations, every
\* target reported success is one whose own operation produced a new ad
C24_DroppedNeverSuccess ==
    \A c \in Customers :
        ShortResponse(c) =>
            \A i \in DOMAIN task_result[c] :
                task_result[c][i].success =>
                    task_result[c][i].ad_group_id \in Range(new_ad_resources[c])

\* C25: every result with success = FALSE carries an error
C25_FailedCarriesError ==
    \A c \in Customers :
        \A i \in DOMAIN task_result[c] :
            ~task_result[c][i].success => task_result[c][i].error # ""

\* the remote calls of process_customer in the order of its awaits
CallOrder ==
    <<"prefetch", "mutate_labels", "create_rsa_batch",
      "label_ads_old", "label_ads_new", "label_ad_groups">>

CallRank(name) == CHOOSE i \in DOMAIN CallOrder : CallOrder[i] = name

\* C27: the remote calls of one account's pass were made one after another in
\* the order prefetch, ensure-labels, publish batch, label mutations; a label
\* mutation is made only after the publish batch has returned; the task of an
\* account is at one place at a time, in a remote call only while in flight
C27_SequentialPass ==
    \A c \in Customers :
        /\ \A i, j \in DOMAIN remote_calls[c] :
              i < j => CallRank(remote_calls[c][i]) < CallRank(remote_calls[c][j])
        /\ \A i \in DOMAIN remote_calls[c] :
              remote_calls[c][i] \in {"label_ads_old", "label_ads_new", "label_ad_groups"}
                  => \E j \in 1..(i - 1) : remote_calls[c][j] = "create_rsa_batch"
        /\ pc[c] \in {"label_old", "label_new", "label_ag"}
              => "create_rsa_batch" \in Range(remote_calls[c])
        /\ pc[c] \in {"publish", "label_old", "label_new", "label_ag"}
              => {"prefetch"} \subseteq Range(remote_calls[c])

\* one account has made all six calls in order while another account is in
\* flight with calls of its own
C27_Witness ==
    \E c, d \in Customers :
        /\ c # d
        /\ remote_calls[c] = CallOrder
        /\ d \in InFlight
        /\ remote_calls[d] # <<>>

\* the tasks process_all creates for the pass: one entry per key of by_customer
Tasks == CustomerOrder(pass_inputs, {})

\* C28: process_all partitions the inputs by account: every account of the
\* pass has exactly one task, every input is in the list of exactly one task,
\* a task holds operations and results of its own account only, and the
\* results of two different tasks belong to different job items
C28_PartitionByAccount ==
    pass_active =>
        /\ \A i, j \in DOMAIN Tasks : i # j => Tasks[i] # Tasks[j]
        /\ \A k \in DOMAIN pass_inputs :
              Cardinality({i \in DOMAIN Tasks :
                             pass_inputs[k] \in Range(by_customer(pass_inputs, Tasks[i]))}) = 1
        /\ SeqSum([i \in DOMAIN Tasks |-> Len(by_customer(pass_inputs, Tasks[i]))])
              = Len(pass_inputs)
        /\ \A c \in Customers : pc[c] # "idle" <=> c \in Range(Tasks)
        /\ \A c \in Customers :
              /\ \A i \in DOMAIN task_result[c] : task_result[c][i].customer_id = c
              /\ Len(ad_operations[c]) <= Len(by_customer(pass_inputs, c))
        /\ \A c, d \in Customers : c # d =>
              \A i \in DOMAIN task_result[c], j \in DOMAIN task_result[d] :
                  ItemOf(task_result[c][i]) # ItemOf(task_result[d][j])

\* two accounts are in flight at once, one of them with two targets, and
\* both have made remote calls
C28_Witness ==
    \E c, d \in Customers :
        /\ c # d
        /\ {c, d} \subseteq InFlight
        /\ Len(by_customer(pass_inputs, c)) = 2
        /\ remote_calls[c] # <<>> /\ remote_calls[d] # <<>>
        /\ cached_labels[c] # cached_labels[d]

\* C30: create_rsa_batch is called for an account only when every label the
\* pass attaches afterwards is in the labels map: a missing label is found
\* before any ad is created
C30_LabelsResolvedBeforePublish ==
    \A c \in Customers :
        new_ad_resources[c] # <<>> => label_names \subseteq cached_labels[c]

\* C31: a target process_customer reports failed had no ad created for it in
\* that pass, so over a pass and the re-runs of its failed targets at most one
\* themed ad is created per ad group
C31_FailedHasNoAd ==
    /\ \A c \in Customers : \A i \in DOMAIN task_result[c] :
          ~task_result[c][i].success =>
              task_result[c][i].ad_group_id \notin Range(new_ad_resources[c])
    /\ \A k \in Keys : ads_created[k] <= 1

\* C32: an ad group receives the processed label only if the publish batch of
\* the pass created a new ad for that ad group
C32_LabelOnlyCreated ==
    [][\A k \in ad_group_labels' \ ad_group_labels :
           k[2] \in Range(new_ad_resources[k[1]])]_vars

\* C33: the permits taken from the limiter are exactly those of the accounts
\* in flight, so a task that ends, by returning or by raising, has given its
\* permit back; when every task has ended the limiter is full again; and a
\* pass under way always reaches the state in which every task has ended
C33_PermitsReleased ==
    /\ [](semaphore + Cardinality(InFlight) = max_concurrent_customers)
    /\ []((pass_active /\ TasksDone) => semaphore = max_concurrent_customers)
    /\ (pass_active ~> TasksDone)

\* two accounts have ended, one of them by an exception, and the account that
\* had to wait for a permit is in flight with the other permit free
C33_Witness ==
    /\ pc[1] = "done" /\ pc[2] = "done"
    /\ \E c \in {1, 2} : \E i \in DOMAIN task_result[c] : task_result[c][i].error # ""
    /\ 3 \in InFlight
    /\ semaphore = max_concurrent_customers - 1

\* ---------------------------------------------------------------- registry properties
\* the wrapped call is over
Ended == wrapper.status \in {"returned", "raised"}

\* the remote failed with a transient error
Transient(a) == a.kind # "ok" /\ a.retryable

\* what the function returns when its mutation succeeds
FullResult(cl) ==
    IF cl.fn = "ensure_labels_exist" THEN cl.existing_labels \cup label_names
    ELSE cl.pairs

\* C12: for the retry budget max_attempts, a wrapped call whose remote
\* mutation has only failed with transient errors, fewer than max_attempts
\* times, is not over; and when k < max_attempts transient failures are followed
\* by a success, the call returns the result of the success after exactly k + 1
\* remote invocations
C12_TransientThenSuccess ==
    /\ (/\ Ended
        /\ mutate_log # <<>>
        /\ \A i \in DOMAIN mutate_log : Transient(mutate_log[i].answer))
            => Len(mutate_log) = max_attempts
    /\ \A k \in 0..(max_attempts - 1) :
          (/\ Len(mutate_log) = k + 1
           /\ \A i \in 1..k : Transient(mutate_log[i].answer)
           /\ mutate_log[k + 1].answer.kind = "ok")
              => /\ wrapper.status = "returned"
                 /\ wrapper.value = FullResult(call)
                 /\ wrapper.attempt = k + 1

\* the i-th invocation of the function raised
InvocationRaised(i) ==
    Body(call, mutate_log[i].sent, mutate_log[i].answer).raised

AppliedCount == Cardinality({op \in DOMAIN remote_store : remote_store[op] > 0})

\* C14: a label batch call never ends by raising, the value it returns is the
\* number of assignments the remote applied, and for an empty list it returns
\* 0 without a remote mutation
C14_LabelBatchNeverRaises ==
    call.fn \in LabelBatchFunctions =>
        /\ wrapper.status # "raised"
        /\ (wrapper.status = "returned" => wrapper.value = AppliedCount)
        /\ (call.pairs = 0 => mutate_log = <<>>)

C26_AllNamesResolved ==
    (call.fn = "ensure_labels_exist" /\ wrapper.status = "returned")
        => label_names \subseteq wrapper.value

\* ---------------------------------------------------------------- builder properties
\* C29: for an existing ad with a final URL the ad data uses the first final
\* URL, the first three existing headlines (all of them when there are fewer)
\* and the first existing description ("" when there is none) followed by the
\* generator's headlines and descriptions, the generator's path1, and as path2
\* the ad's path2, or its path1 when path2 is empty
C29_PublishPayload ==
    /\ (build.status # "none" /\ cached_existing_ad # <<>>
           /\ "BF_2025" \in builder_labels) =>
          (build.status = "result" <=> cached_existing_ad[1].final_urls # <<>>)
    /\ build.status = "result" =>
          LET a == cached_existing_ad[1]
              d == build.ad_data
              g == build.generated
              n == IF Len(a.headlines) < 3 THEN Len(a.headlines) ELSE 3
          IN /\ d.final_url = a.final_urls[1]
             /\ Len(d.headlines) = n + Len(g.extra_headlines)
             /\ \A i \in 1..n : d.headlines[i] = a.headlines[i]
             /\ \A i \in 1..Len(g.extra_headlines) :
                   d.headlines[n + i] = g.extra_headlines[i]
             /\ d.descriptions[1] =
                   (IF a.descriptions = <<>> THEN "" ELSE a.descriptions[1])
             /\ Tail(d.descriptions) = g.extra_descriptions
             /\ d.path1 = g.path1
             /\ d.path2 = (IF a.path2 = "" THEN a.path1 ELSE a.path2)

\* a payload was built from an ad with two final URLs, more than three
\* headlines, no description and only path1
C29_Witness ==
    /\ build.status = "result"
    /\ Len(cached_existing_ad[1].final_urls) = 2
    /\ cached_existing_ad[1].final_urls[1] # cached_existing_ad[1].final_urls[2]
    /\ Len(cached_existing_ad[1].headlines) = 4
    /\ cached_existing_ad[1].headlines[4] # cached_existing_ad[1].headlines[3]
    /\ cached_existing_ad[1].descriptions = <<>>
    /\ cached_existing_ad[1].path2 = "" /\ cached_existing_ad[1].path1 # ""
    /\ Len(build.generated.extra_headlines) = 2

ScrapeFailed(r, i) == request[r].results[i].scraped \in {"None", "503"}

\* C35: a url whose scraping failed is returned with status failed and without
\* any Redshift operation, and its flag is still 0 when the batch of the
\* request has been executed; a url with any other outcome has an
\* update_werkvoorraad operation among the operations of the request
C35_ScrapeFailureStaysPending ==
    [][\A r \in Requests :
          /\ \A i \in DOMAIN request'[r].results :
                LET u == request'[r].urls[i]
                    res == request'[r].results[i]
                    ops == Range(request'[r].all_redshift_ops)
                IN IF res.scraped \in {"None", "503"}
                   THEN /\ res.status = "failed"
                        /\ <<"update_werkvoorraad", u>> \notin ops
                        /\ <<"insert_content", u>> \notin ops
                        /\ kopteksten'[u] = 0
                   ELSE <<"update_werkvoorraad", u>> \in ops
          /\ (request[r].pc = "write" /\ request'[r].pc = "idle") =>
                \A i \in DOMAIN request[r].results :
                    ScrapeFailed(r, i) => kopteksten'[request[r].urls[i]] = 0]_vars

\* a request is about to write its batch after one url answered 503 and
\* another was processed with success
C35_Witness ==
    \E r \in Requests :
        /\ request[r].pc = "write"
        /\ \E i, j \in DOMAIN request[r].results :
              /\ request[r].results[i].scraped = "503"
              /\ request[r].results[j].status = "success"
        /\ \E u \in Urls : kopteksten[u] = 1

\* C36: between process_urls requests every url with tracking status success
\* has a content row in the output table and flag 1 in the work queue
C36_SuccessIsStored ==
    (\A r \in Requests : request[r].pc = "idle") =>
        \A u \in Urls :
            tracking[u] = "success" => (content_rows[u] >= 1 /\ kopteksten[u] = 1)

\* C37: however concurrent process_urls requests interleave, no url is among
\* the urls of two requests and no url has more than one content row
C37_NoDoubleProcessing ==
    /\ \A r, q \in Requests :
          r # q => Range(request[r].urls) \cap Range(request[q].urls) = {}
    /\ \A u \in Urls : content_rows[u] <= 1

\* C38: process_urls answers "complete" only when the work queue holds no url
\* with flag 0 that is not locally successful
C38_CompleteMeansDone ==
    [][\A r \in Requests :
          (request[r].pc = "fetch" /\ request'[r].response = "complete") =>
              \A u \in Urls : kopteksten[u] = 0 => tracking[u] = "success"]_vars

====
